---- MODULE Spec2Model ----
(***************************************************************************)
(* The chat view (ChatArea) of the messenger client: the message store,    *)
(* the unread counters, the read-receipt batcher, the visibility observer  *)
(* and the WebSocket channel, as one state machine.  Every action is one   *)
(* task of the single UI thread: an effect run, the resumption of an async *)
(* continuation, a channel event, an observer callback, a timer expiry or  *)
(* a user-initiated send.                                                  *)
(***************************************************************************)
EXTENDS Integers, Sequences, FiniteSets, TLC

\* ------------------------------------------------------------------ bounds
\* Effect runs (conversation sessions) of one mounted view.
MaxSess == 3
\* Records appended to one store after its history load (pushed or sent).
MaxLive == 1
\* Distinct instants a timestamp string can denote.
MaxTime == 3
\* Length of each list of a history response in the load-only specification.
MaxHist == 2
\* The largest unread count an answer of the poll reports.
MaxUnreaded == 1

\* ------------------------------------------------------------ value domains
\* currentUserId (a prop of the view) and the peer of the conversation.
currentUserId == 1
Other == currentUserId + 1

\* Conversation ids; NoConv is an undefined chat.conversationId.
Convs == {1, 2}
NoConv == 0

\* A timestamp slot holds undefined/null, or a string.  String 0 is a string
\* a Date cannot parse; strings 2t-1 and 2t are two spellings of instant t
\* (2t-1 is the one Date.prototype.toISOString produces).
Undefined == 0 - 1
NaN == 0 - 1
DateStrs == 0 .. (2 * MaxTime)
IsoStr(t) == 2 * t - 1

\* new Date(String(s)).getTime()
GetTime(s) == IF s = Undefined \/ s = 0 THEN NaN ELSE (s + 1) \div 2
IsFinite(t) == t # NaN
\* new Date().toISOString(): the clock never runs behind a stored instant.
NowStr == IsoStr(MaxTime)

Range(s) == {s[i] : i \in 1 .. Len(s)}

\* ------------------------------------------------------------ message store
\* updated.filter(m => m.is_read === false && m.sender_id !== currentUserId)
IsUnreadFromOthers(m) == m.is_read = FALSE /\ m.sender_id # currentUserId

CountUnread(msgs) == Cardinality({i \in 1 .. Len(msgs) : IsUnreadFromOthers(msgs[i])})

\* updated.find(...): the first record in array order, or null (0).
FirstUnread(msgs) ==
  LET hits == {i \in 1 .. Len(msgs) : IsUnreadFromOthers(msgs[i])}
  IN IF hits = {} THEN 0
     ELSE msgs[CHOOSE i \in hits : \A j \in hits : i <= j].id

\* ensureType: created_at ?? timestamp ?? now, and the fields the store keeps.
ensureType(raw) ==
  [id |-> raw.id,
   conversation_id |-> raw.conversation_id,
   sender_id |-> raw.sender_id,
   created_at |-> IF raw.created_at # Undefined THEN raw.created_at
                  ELSE IF raw.timestamp # Undefined THEN raw.timestamp
                  ELSE NowStr,
   is_read |-> raw.is_read]

Tag(raws, flag) == [i \in 1 .. Len(raws) |-> [ensureType(raws[i]) EXCEPT !.is_read = flag]]

\* The comparator of allMessages.sort: a.time - b.time; NaN counts as 0.
Compare(a, b) ==
  LET ta == GetTime(a.created_at)
      tb == GetTime(b.created_at)
  IN IF IsFinite(ta) /\ IsFinite(tb) THEN ta - tb ELSE 0

\* A sort that is not stable: m goes ahead of the records of its instant.
InsertBeforeEqual(sorted, m) ==
  LET k == Cardinality({i \in 1 .. Len(sorted) : Compare(sorted[i], m) < 0})
  IN SubSeq(sorted, 1, k) \o <<m>> \o SubSeq(sorted, k + 1, Len(sorted))

\* Array.prototype.sort is stable: m goes behind every record not after it.
InsertStable(sorted, m) ==
  LET k == Cardinality({i \in 1 .. Len(sorted) : Compare(sorted[i], m) <= 0})
  IN SubSeq(sorted, 1, k) \o <<m>> \o SubSeq(sorted, k + 1, Len(sorted))

RECURSIVE SortFrom(_, _, _)
SortFrom(msgs, i, acc) ==
  IF i > Len(msgs) THEN acc ELSE SortFrom(msgs, i + 1, InsertStable(acc, msgs[i]))

SortByCreatedAt(msgs) == SortFrom(msgs, 1, <<>>)

\* loadMessages on an OK response: the store and the counters it sets.
\* A list that is absent from the response is <<>> here.
LoadResult(data) ==
  LET readMessages == Tag(data.readed_messages, TRUE)
      allUnreadMessages == Tag(data.not_readed_messages, FALSE)
      unreadMessages == SelectSeq(allUnreadMessages, LAMBDA m : m.sender_id # currentUserId)
      allMessages == SortByCreatedAt(readMessages \o allUnreadMessages)
  IN [messages |-> allMessages,
      unreadCount |-> Len(unreadMessages),
      firstUnreadId |-> FirstUnread(allMessages)]

\* A map that flips the flag of every record it selects, read or not.
MarkReadToggles(msgs, cutoff, isPeerReader) ==
  [i \in 1 .. Len(msgs) |->
     LET msg == msgs[i]
         t == GetTime(msg.created_at)
     IN IF ~IsFinite(t) \/ t > cutoff THEN msg
        ELSE IF (msg.sender_id = currentUserId) <=> isPeerReader
             THEN [msg EXCEPT !.is_read = ~msg.is_read] ELSE msg]

\* The mark-read map of the messages_read handler.
MarkRead(msgs, cutoff, isPeerReader) ==
  [i \in 1 .. Len(msgs) |->
     LET msg == msgs[i]
         t == GetTime(msg.created_at)
     IN IF ~IsFinite(t) \/ t > cutoff \/ msg.is_read = TRUE THEN msg
        ELSE IF isPeerReader
             THEN (IF msg.sender_id = currentUserId THEN [msg EXCEPT !.is_read = TRUE] ELSE msg)
             ELSE (IF msg.sender_id # currentUserId THEN [msg EXCEPT !.is_read = TRUE] ELSE msg)]

\* No optimistic update: the records wait for the server's confirmation.
MarkSeenOnConfirmation(msgs, cutoff) == msgs

\* The optimistic map of sendReadReceipts.
MarkSeen(msgs, cutoff) ==
  [i \in 1 .. Len(msgs) |->
     LET msg == msgs[i]
         t == GetTime(msg.created_at)
     IN IF msg.sender_id # currentUserId /\ IsFinite(t) /\ t <= cutoff /\ msg.is_read = FALSE
        THEN [msg EXCEPT !.is_read = TRUE] ELSE msg]

\* ------------------------------------------------------------- environment
\* What the backend holds for a conversation: POST /all-messages answers with
\* these records, split by the read flags it has at that moment.
RawMsg(i, c, who, at) ==
  [id |-> i, conversation_id |-> c, sender_id |-> who, created_at |-> at,
   timestamp |-> Undefined, is_read |-> FALSE]

History(c) ==
  IF c = 1 THEN <<RawMsg(1, c, Other, IsoStr(1)), RawMsg(2, c, Other, IsoStr(2)),
                  RawMsg(3, c, currentUserId, IsoStr(3))>>
  ELSE <<RawMsg(4, c, Other, IsoStr(2))>>

HistoryIds(c) == {History(c)[i].id : i \in 1 .. Len(History(c))}

\* Records of the store that were appended after a history load: those no
\* history response holds and those that repeat an id ahead of them.
LiveCount(msgs) ==
  Cardinality({i \in 1 .. Len(msgs) :
                 msgs[i].id > 4 \/ \E j \in 1 .. i - 1 : msgs[j].id = msgs[i].id})

Response(c, readIds) ==
  [readed_messages |-> SelectSeq(History(c), LAMBDA r : r.id \in readIds),
   not_readed_messages |-> SelectSeq(History(c), LAMBDA r : r.id \notin readIds)]

\* The payloads the backend pushes as message / file events on the channel
\* of conversation c: a new message of the peer, one that carries no
\* timestamp, and one of the current user written elsewhere, with an
\* earlier instant in the other spelling.
LivePayloads(c) ==
  {[id |-> 5, conversation_id |-> c, sender_id |-> Other, timestamp |-> IsoStr(MaxTime)],
   [id |-> 6, conversation_id |-> c, sender_id |-> Other, timestamp |-> Undefined],
   [id |-> 7, conversation_id |-> c, sender_id |-> currentUserId, timestamp |-> 2]}

\* The first record of the history of conversation c, pushed again as a
\* message event.
ReplayPayload(c) ==
  [id |-> History(c)[1].id, conversation_id |-> c, sender_id |-> History(c)[1].sender_id,
   timestamp |-> History(c)[1].created_at]

\* The reader identity fields a messages_read event may carry (0: absent or
\* not a number).
ReaderShapes ==
  {[user_id |-> 0, reader_id |-> 0, readerId |-> 0],
   [user_id |-> currentUserId, reader_id |-> Other, readerId |-> 0],
   [user_id |-> 0, reader_id |-> Other, readerId |-> currentUserId]}

\* The last_seen_date values it may carry: none, an unparseable one, every
\* instant as toISOString spells it, and the latest in the other spelling.
ReadDates == {Undefined, 0, 2 * MaxTime} \cup {IsoStr(t) : t \in 1 .. MaxTime}

\* An event without a usable last_seen_date is dropped before its reader
\* fields are read, so one reader shape stands for all of them.
ReadEvents ==
  {ev \in {[type |-> "messages_read", last_seen_date |-> d, reader |-> r] :
              d \in ReadDates, r \in ReaderShapes} :
     ev.last_seen_date \in {Undefined, 0} =>
       ev.reader = [user_id |-> 0, reader_id |-> 0, readerId |-> 0]}

\* -------------------------------------------------------------------- state
VARIABLES
  sessions,               \* chat.conversationId of every effect run so far; the last is current
  fetches,                \* effect runs whose loadAndConnect awaits loadMessages
  chan,                   \* readyState of the WebSocket each effect run created ("none": not created)
  wsRef,                  \* wsRef.current: the effect run whose WebSocket it holds, 0 for null
  wsConnected,
  observerRef,            \* intersectionObserverRef.current: the effect run that built it, 0 for null
  timers,                 \* armed setTimeout timers, each the effect run whose closure it calls
  readTimerRef,           \* readTimerRef.current: "null", or a handle "armed" / "expired"
  pendingLastSeenDateRef, \* Undefined for null
  lastSentReadDateRef,    \* Undefined for null
  messages,
  unreadCount,
  firstUnreadId,          \* 0 for null
  loading,
  newMessage,             \* "" or a non-blank text
  selectedFile,           \* selectedFile !== null
  fileInput,              \* fileInputRef.current.files[0] is present
  upload,                 \* the effect run whose handleFileUpload awaits POST /file, 0 for none
  convFetches,            \* GET /conversation/<user>/<friend> requests in flight (Messenger)
  userId,                 \* user?.user_id of the Messenger render, 0 when there is no user
  unreadInFlight,         \* unreadInFlight.current
  unreadRequests,         \* POST /unreaded-user-messages in flight, each the user_id it asks for
  unreadCounts,           \* the map setUnreadCounts stored last and the user it was asked for
  pollTimer,              \* the user_id of the effect run whose setInterval is armed, 0 for none
  burst,                  \* history: scheduleReadReceipts calls since no timer was armed
  consumed,               \* history: the last_seen_date that cleared the token since the last flush
  last                    \* history: the task that ran last and what it wrote to the channel

vars == <<sessions, fetches, chan, wsRef, wsConnected, observerRef, timers, readTimerRef,
          pendingLastSeenDateRef, lastSentReadDateRef, messages, unreadCount,
          firstUnreadId, loading, newMessage, selectedFile, fileInput, upload,
          convFetches, userId, unreadInFlight, unreadRequests, unreadCounts, pollTimer,
          burst, consumed, last>>

fileVars == <<selectedFile, fileInput, upload>>
pollVars == <<userId, unreadInFlight, unreadRequests, unreadCounts, pollTimer>>

session == Len(sessions)
conversationId == sessions[session]

NoBurst == [n |-> 0, max |-> NaN]
Did(op, s, info, sent) == [op |-> op, sess |-> s, info |-> info, sent |-> sent]
NoEvent == 0

Init ==
  /\ sessions = <<1>>
  /\ fetches = {1}
  /\ chan = [s \in 1 .. MaxSess |-> "none"]
  /\ wsRef = 0
  /\ wsConnected = FALSE
  /\ observerRef = 0
  /\ timers = <<>>
  /\ readTimerRef = "null"
  /\ pendingLastSeenDateRef = Undefined
  /\ lastSentReadDateRef = Undefined
  /\ messages = <<>>
  /\ unreadCount = 0
  /\ firstUnreadId = 0
  /\ loading = TRUE
  /\ newMessage = ""
  /\ selectedFile = FALSE
  /\ fileInput = FALSE
  /\ upload = 0
  /\ convFetches = {}
  /\ userId = currentUserId
  /\ unreadInFlight = TRUE
  /\ unreadRequests = <<currentUserId>>
  /\ unreadCounts = [user |-> 0, unreaded_messages |-> 0]
  /\ pollTimer = currentUserId
  /\ burst = NoBurst
  /\ consumed = Undefined
  /\ last = Did("mount", 1, NoEvent, <<>>)

\* ------------------------------------------------------------------ helpers
\* WebSocket.close(): CONNECTING and OPEN become CLOSING.
Close(ch, s) ==
  [ch EXCEPT ![s] = IF @ \in {"connecting", "open"} THEN "closing" ELSE @]

\* The armed timer is left to run.
LeaveTimeout(ts) == ts

\* clearTimeout(readTimerRef.current): the handle names the timer armed last.
ClearTimeout(ts) ==
  IF readTimerRef = "armed" /\ ts # <<>> THEN SubSeq(ts, 1, Len(ts) - 1) ELSE ts

\* The ref is dropped without close().
cleanupWithoutClose(ch) == ch

\* if (wsRef.current) { wsRef.current.close(); wsRef.current = null }, as
\* cleanup() and connectWebSocket() both do: the channel map it leaves.
cleanup(ch) == IF wsRef # 0 THEN Close(ch, wsRef) ELSE ch

\* ------------------------------------------------------------------ actions
\* The effect on [chat.conversationId]: cleanup of the previous run, then the
\* body of the new run up to the first await of loadMessages.
SwitchConversation(c) ==
  /\ session < MaxSess
  /\ c # conversationId
  /\ sessions' = Append(sessions, c)
  /\ chan' = cleanup(chan)
  /\ wsRef' = 0
  /\ wsConnected' = FALSE
  /\ observerRef' = 0
  /\ timers' = ClearTimeout(timers)
  /\ readTimerRef' = "null"
  /\ pendingLastSeenDateRef' = Undefined
  /\ messages' = <<>>
  /\ loading' = (c # NoConv)
  /\ fetches' = IF c # NoConv THEN fetches \cup {session + 1} ELSE fetches
  /\ burst' = NoBurst
  /\ last' = Did("switch", session + 1, NoEvent, <<>>)
  /\ UNCHANGED <<lastSentReadDateRef, unreadCount, firstUnreadId, newMessage, fileVars,
                 consumed>>

\* connectWebSocket() in the closure of effect run s: <<chan, wsRef, wsConnected>>.
connectWebSocket(s) ==
  IF wsRef # 0 /\ chan[wsRef] = "open"
  THEN <<chan, wsRef, TRUE>>
  ELSE <<[cleanup(chan) EXCEPT ![s] = "connecting"], s, wsConnected>>

\* The fetch of effect run s settles: the rest of loadMessages, then
\* connectWebSocket and setupIntersectionObserver of the same closure.
FetchSettles(s, ok, data) ==
  /\ s \in fetches
  /\ fetches' = fetches \ {s}
  /\ IF ok
     THEN LET r == LoadResult(data)
          IN /\ messages' = r.messages
             /\ unreadCount' = r.unreadCount
             /\ firstUnreadId' = r.firstUnreadId
     ELSE UNCHANGED <<messages, unreadCount, firstUnreadId>>
  /\ loading' = FALSE
  /\ LET c == connectWebSocket(s)
     IN /\ chan' = c[1]
        /\ wsRef' = c[2]
        /\ wsConnected' = c[3]
  /\ observerRef' = s
  /\ last' = Did(IF ok THEN "loaded" ELSE "loadFailed", s, data, <<>>)
  /\ UNCHANGED <<fileVars, convFetches, pollVars, consumed, sessions, timers, readTimerRef,
                 pendingLastSeenDateRef,
                 lastSentReadDateRef, newMessage, burst>>

LoadOk ==
  \E s \in fetches : \E readIds \in SUBSET HistoryIds(sessions[s]) :
    FetchSettles(s, TRUE, Response(sessions[s], readIds))
LoadFails == \E s \in fetches : FetchSettles(s, FALSE, NoEvent)

\* The open event of the WebSocket of effect run s.
WsOpen(s) ==
  /\ chan[s] = "connecting"
  /\ chan' = [chan EXCEPT ![s] = "open"]
  /\ wsConnected' = TRUE
  /\ last' = Did("onopen", s, NoEvent, <<>>)
  /\ UNCHANGED <<fileVars, convFetches, pollVars, consumed, sessions, fetches, wsRef, observerRef, timers, readTimerRef,
                 pendingLastSeenDateRef, lastSentReadDateRef, messages, unreadCount,
                 firstUnreadId, loading, newMessage, burst>>

\* The connection of the WebSocket of effect run s ends (dropped, refused,
\* or the closing handshake done): readyState CLOSED, then onerror (when it
\* failed) and onclose, which both clear wsConnected.
WsClose(s) ==
  /\ chan[s] \in {"connecting", "open", "closing"}
  /\ chan' = [chan EXCEPT ![s] = "closed"]
  /\ wsConnected' = FALSE
  /\ last' = Did("onclose", s, NoEvent, <<>>)
  /\ UNCHANGED <<fileVars, convFetches, pollVars, consumed, sessions, fetches, wsRef, observerRef, timers, readTimerRef,
                 pendingLastSeenDateRef, lastSentReadDateRef, messages, unreadCount,
                 firstUnreadId, loading, newMessage, burst>>

\* Date.now() as a provisional id: a value no record of the store has.
DateNow == 10 + Len(messages)

\* setMessages(prev => [...prev, newMsg]) with the counters recomputed.
AppendLive(newMsg) ==
  LET updated == Append(messages, newMsg)
  IN /\ messages' = updated
     /\ unreadCount' = CountUnread(updated)
     /\ firstUnreadId' = FirstUnread(updated)

\* onmessage, type "message" (kind = "message") or "file" with a payload.
\* The backend gives every new message an id of its own; the id that
\* arrives twice is the one of a record the history already delivered.
WsPush(s, kind, p) ==
  /\ chan[s] = "open"
  /\ LiveCount(messages) < MaxLive
  /\ p.id > 4 => \A i \in 1 .. Len(messages) : messages[i].id # p.id
  /\ AppendLive([id |-> p.id, conversation_id |-> p.conversation_id,
                 sender_id |-> p.sender_id, created_at |-> p.timestamp,
                 is_read |-> FALSE])
  /\ last' = Did("push", s, p.id, <<>>)
  /\ UNCHANGED <<fileVars, convFetches, pollVars, consumed, sessions, fetches, chan, wsRef, wsConnected, observerRef, timers,
                 readTimerRef, pendingLastSeenDateRef, lastSentReadDateRef, loading,
                 newMessage, burst>>

\* typeof data.user_id === 'number' ? ... : undefined (0).
readerId(r) ==
  IF r.user_id # 0 THEN r.user_id
  ELSE IF r.reader_id # 0 THEN r.reader_id
  ELSE r.readerId

\* The token survives the match.
keepToken(lastSeen) == lastSentReadDateRef

\* if (isSelfAckByTimestamp) lastSentReadDateRef.current = null
consumeToken(lastSeen) ==
  IF lastSeen = lastSentReadDateRef THEN Undefined ELSE lastSentReadDateRef

isSelfAckByTimestamp(lastSeen) == lastSentReadDateRef = lastSeen

\* No self-ack detection: without a reader identity the reader is the peer.
isPeerReaderNoEcho(lastSeen, r) ==
  IF readerId(r) # 0 THEN readerId(r) # currentUserId ELSE TRUE

\* The timestamp match decides before the reader identity is looked at.
isPeerReaderEchoFirst(lastSeen, r) ==
  IF isSelfAckByTimestamp(lastSeen) THEN FALSE
  ELSE IF readerId(r) # 0 THEN readerId(r) # currentUserId ELSE TRUE

isPeerReader(lastSeen, r) ==
  IF readerId(r) # 0 THEN readerId(r) # currentUserId
  ELSE ~isSelfAckByTimestamp(lastSeen)

\* onmessage, type "messages_read".
WsRead(s, ev) ==
  /\ chan[s] = "open"
  /\ LET lastSeen == ev.last_seen_date
         cutoff == GetTime(lastSeen)
     IN IF lastSeen = Undefined \/ ~IsFinite(cutoff)
        THEN UNCHANGED <<lastSentReadDateRef, messages, unreadCount, firstUnreadId, consumed>>
        ELSE LET updated == MarkRead(messages, cutoff, isPeerReader(lastSeen, ev.reader))
             IN /\ lastSentReadDateRef' = consumeToken(lastSeen)
                /\ consumed' = IF isSelfAckByTimestamp(lastSeen) THEN lastSeen ELSE consumed
                /\ messages' = updated
                /\ unreadCount' = CountUnread(updated)
                /\ firstUnreadId' = FirstUnread(updated)
  /\ last' = Did("read", s,
                 [ev |-> ev,
                  selfAck |-> isSelfAckByTimestamp(ev.last_seen_date),
                  marked |-> {i \in 1 .. Len(messages) : messages'[i] # messages[i]}],
                 <<>>)
  /\ UNCHANGED <<fileVars, convFetches, pollVars, sessions, fetches, chan, wsRef, wsConnected, observerRef, timers,
                 readTimerRef, pendingLastSeenDateRef, loading, newMessage, burst>>

\* The handler lets the exception end the stream: the socket is closed.
WsSkippedCloses(s, kind) ==
  /\ chan[s] = "open"
  /\ chan' = [chan EXCEPT ![s] = "closed"]
  /\ wsConnected' = FALSE
  /\ last' = Did("skipped", s, kind, <<>>)
  /\ UNCHANGED <<fileVars, convFetches, pollVars, consumed, sessions, fetches, wsRef, observerRef,
                 timers, readTimerRef, pendingLastSeenDateRef, lastSentReadDateRef,
                 messages, unreadCount, firstUnreadId, loading, newMessage, burst>>

\* onmessage for data JSON.parse rejects, of an unrecognized type, or a file
\* event without payload: logged, nothing else.
WsSkipped(s, kind) ==
  /\ chan[s] = "open"
  /\ last' = Did("skipped", s, kind, <<>>)
  /\ UNCHANGED <<fileVars, convFetches, pollVars, consumed, sessions, fetches, chan, wsRef, wsConnected, observerRef, timers,
                 readTimerRef, pendingLastSeenDateRef, lastSentReadDateRef, messages,
                 unreadCount, firstUnreadId, loading, newMessage, burst>>

\* The entries of one observer batch that pass the callback's test
\* (isIntersecting, data-is-unread, data-from-others), in entry order.
Qualifying(V) == {i \in V : IsUnreadFromOthers(messages[i])}

\* The cursor takes every parseable timestamp, later or not.
SeeEntryOverwrites(current, createdAt) ==
  IF createdAt # Undefined /\ IsFinite(GetTime(createdAt)) THEN createdAt ELSE current

\* The comparison turned round: the cursor keeps the earliest instant seen.
SeeEntryKeepsEarliest(current, createdAt) ==
  LET tNew == GetTime(createdAt)
      tOld == GetTime(current)
  IN IF createdAt # Undefined /\ IsFinite(tNew) /\ (current = Undefined \/ tNew < tOld)
     THEN createdAt ELSE current

\* The body of entries.forEach for one passing entry: the cursor it leaves.
\* A missing data-created-at attribute reads as '' and is skipped.
SeeEntry(current, createdAt) ==
  LET tNew == GetTime(createdAt)
      tOld == GetTime(current)
  IN IF createdAt # Undefined /\ IsFinite(tNew) /\ (current = Undefined \/ tNew > tOld)
     THEN createdAt ELSE current

\* Only the first entry of the batch is looked at.
SeeFirstEntry(current, Q, i) ==
  LET rest == {j \in Q : j >= i}
  IN IF rest = {} THEN current
     ELSE SeeEntry(current, messages[CHOOSE j \in rest : \A k \in rest : j <= k].created_at)

RECURSIVE SeeEntries(_, _, _)
SeeEntries(current, Q, i) ==
  IF i > Len(messages) THEN current
  ELSE SeeEntries(IF i \in Q THEN SeeEntry(current, messages[i].created_at) ELSE current,
                  Q, i + 1)

MaxTimeOf(Q) ==
  LET ts == {GetTime(messages[i].created_at) : i \in Q} \ {NaN}
  IN IF ts = {} THEN NaN ELSE CHOOSE t \in ts : \A u \in ts : u <= t

TimeMax(a, b) == IF a = NaN THEN b ELSE IF b = NaN THEN a ELSE IF a >= b THEN a ELSE b

\* scheduleReadReceipts(): the armed timers it leaves, called from the
\* closure of effect run s.
scheduleReadReceipts(s) == Append(ClearTimeout(timers), s)

\* The IntersectionObserver callback with the rendered rows V intersecting.
ObserverCallback(V) ==
  /\ observerRef # 0
  /\ V # {}
  /\ LET Q == Qualifying(V)
     IN IF Q = {}
        THEN UNCHANGED <<pendingLastSeenDateRef, timers, readTimerRef, burst>>
        ELSE /\ pendingLastSeenDateRef' = SeeEntries(pendingLastSeenDateRef, Q, 1)
             /\ timers' = scheduleReadReceipts(observerRef)
             /\ readTimerRef' = "armed"
             /\ burst' = [n |-> IF burst.n + Cardinality(Q) >= 2 THEN 2 ELSE 1,
                          max |-> TimeMax(burst.max, MaxTimeOf(Q))]
  /\ last' = Did("observer", observerRef,
                 [n |-> Cardinality(Qualifying(V)), max |-> MaxTimeOf(Qualifying(V))], <<>>)
  /\ UNCHANGED <<fileVars, convFetches, pollVars, consumed, sessions, fetches, chan, wsRef, wsConnected, observerRef,
                 lastSentReadDateRef, messages, unreadCount, firstUnreadId, loading,
                 newMessage>>

\* The receipt is stamped with the time of the flush.
readReceiptOfNow(s, lastSeen) ==
  [type |-> "mark_as_read", last_seen_date |-> NowStr, user_id |-> currentUserId,
   conversation_id |-> sessions[s], via |-> wsRef]

\* readReceiptData of the closure of effect run s, as wsRef.current.send
\* writes it (via: the channel it is written to).
readReceiptData(s, lastSeen) ==
  [type |-> "mark_as_read", last_seen_date |-> lastSeen, user_id |-> currentUserId,
   conversation_id |-> sessions[s], via |-> wsRef]

\* Only the ref is tested, not the readyState of the socket it holds.
receiptsHeldChannel == wsRef # 0

\* The test sendReadReceipts starts with, negated:
\* wsRef.current && wsRef.current.readyState === WebSocket.OPEN
canSendReceipts == wsRef # 0 /\ chan[wsRef] = "open"

\* The token is set ahead of the two early returns.
rememberBeforeChecks(lastSeen) ==
  IF lastSeen # Undefined THEN lastSeen ELSE lastSentReadDateRef

\* lastSentReadDateRef.current after sendReadReceipts(): lastSeen once both
\* early returns are passed, as it was otherwise.  send() of a socket whose
\* readyState is OPEN does not throw, so the assignment and the write that
\* follows it happen together.
rememberSent(lastSeen) ==
  IF canSendReceipts /\ lastSeen # Undefined THEN lastSeen ELSE lastSentReadDateRef

\* The timer at position i expires: sendReadReceipts() in its closure.
TimerFires(i) ==
  /\ i \in 1 .. Len(timers)
  /\ timers' = SubSeq(timers, 1, i - 1) \o SubSeq(timers, i + 1, Len(timers))
  /\ readTimerRef' = IF i = Len(timers) /\ readTimerRef = "armed" THEN "expired" ELSE readTimerRef
  /\ burst' = NoBurst
  /\ LET lastSeen == pendingLastSeenDateRef
     IN /\ lastSentReadDateRef' = rememberSent(lastSeen)
        /\ IF ~canSendReceipts \/ lastSeen = Undefined
           THEN /\ last' = Did("timer", timers[i], [burst |-> burst, cursor |-> lastSeen], <<>>)
                /\ UNCHANGED <<pendingLastSeenDateRef, messages,
                               unreadCount, firstUnreadId, consumed>>
           ELSE LET updated == MarkSeen(messages, GetTime(lastSeen))
                IN /\ consumed' = Undefined
                   /\ pendingLastSeenDateRef' = Undefined
                   /\ messages' = updated
                   /\ unreadCount' = CountUnread(updated)
                   /\ firstUnreadId' = FirstUnread(updated)
                   /\ last' = Did("timer", timers[i], [burst |-> burst, cursor |-> lastSeen],
                                  <<readReceiptData(timers[i], lastSeen)>>)
  /\ UNCHANGED <<fileVars, convFetches, pollVars, sessions, fetches, chan, wsRef, wsConnected, observerRef, loading,
                 newMessage>>

\* onChange of the input: setNewMessage.
TypeMessage(text) ==
  /\ newMessage # text
  /\ newMessage' = text
  /\ last' = Did("type", session, NoEvent, <<>>)
  /\ UNCHANGED <<fileVars, convFetches, pollVars, consumed, sessions, fetches, chan, wsRef, wsConnected, observerRef, timers,
                 readTimerRef, pendingLastSeenDateRef, lastSentReadDateRef, messages,
                 unreadCount, firstUnreadId, loading, burst>>

\* The readyState the server's closing handshake leaves before the close
\* event is delivered: CLOSING, with no handler run.
WsClosing(s) ==
  /\ chan[s] = "open"
  /\ chan' = [chan EXCEPT ![s] = "closing"]
  /\ last' = Did("closing", s, NoEvent, <<>>)
  /\ UNCHANGED <<fileVars, convFetches, pollVars, consumed, sessions, fetches, wsRef, wsConnected,
                 observerRef, timers, readTimerRef, pendingLastSeenDateRef,
                 lastSentReadDateRef, messages, unreadCount, firstUnreadId, loading,
                 newMessage, burst>>

\* Holding a socket is taken for being connected.
channelHeld == wsRef # 0

\* wsRef.current && wsRef.current.readyState === WebSocket.OPEN
channelReady == wsRef # 0 /\ chan[wsRef] = "open"

\* A handler that returns early: what it reports and nothing else.
Refused(op, why, alert) ==
  /\ last' = Did(op, session, [why |-> why, alert |-> alert], <<>>)
  /\ UNCHANGED <<fileVars, convFetches, pollVars, consumed, sessions, fetches, chan, wsRef,
                 wsConnected, observerRef, timers, readTimerRef, pendingLastSeenDateRef,
                 lastSentReadDateRef, messages, unreadCount, firstUnreadId, loading,
                 newMessage, burst>>

\* sendMessage() of the current render.
sendMessage ==
  IF newMessage = "" THEN Refused("sendRefused", "blank", FALSE)
  ELSE IF ~channelReady THEN Refused("sendRefused", "notReady", TRUE)
  ELSE IF conversationId = NoConv THEN Refused("sendRefused", "noConversation", FALSE)
  ELSE /\ LiveCount(messages) < MaxLive
       /\ newMessage' = ""
       /\ messages' = Append(messages,
                             [id |-> DateNow, conversation_id |-> conversationId,
                              sender_id |-> currentUserId, created_at |-> NowStr,
                              is_read |-> FALSE])
       /\ last' = Did("send", session, NoEvent,
                      <<[type |-> "message", id |-> DateNow,
                         conversation_id |-> conversationId,
                         sender_id |-> currentUserId, timestamp |-> NowStr,
                         via |-> wsRef]>>)
       /\ UNCHANGED <<fileVars, convFetches, pollVars, consumed, sessions, fetches, chan, wsRef,
                      wsConnected, observerRef, timers, readTimerRef,
                      pendingLastSeenDateRef, lastSentReadDateRef, unreadCount,
                      firstUnreadId, loading, burst>>

\* handleFileSelect with a file chosen (the paperclip button is enabled).
handleFileSelect ==
  /\ upload = 0 /\ ~selectedFile
  /\ selectedFile' = TRUE
  /\ fileInput' = TRUE
  /\ last' = Did("fileSelect", session, NoEvent, <<>>)
  /\ UNCHANGED <<upload, convFetches, pollVars, consumed, sessions, fetches, chan, wsRef,
                 wsConnected, observerRef, timers, readTimerRef, pendingLastSeenDateRef,
                 lastSentReadDateRef, messages, unreadCount, firstUnreadId, loading,
                 newMessage, burst>>

\* cancelFileSelection from the preview.
cancelFileSelection ==
  /\ selectedFile
  /\ selectedFile' = FALSE
  /\ fileInput' = FALSE
  /\ last' = Did("fileCancel", session, NoEvent, <<>>)
  /\ UNCHANGED <<upload, convFetches, pollVars, consumed, sessions, fetches, chan, wsRef,
                 wsConnected, observerRef, timers, readTimerRef, pendingLastSeenDateRef,
                 lastSentReadDateRef, messages, unreadCount, firstUnreadId, loading,
                 newMessage, burst>>

\* handleFileUpload() up to its await of POST /file, from the Send button of
\* the preview (rendered with selectedFile, disabled by uploading or
\* !wsConnected).
handleFileUpload ==
  /\ selectedFile /\ upload = 0 /\ wsConnected
  /\ IF ~fileInput \/ conversationId = NoConv
     THEN Refused("uploadRefused", "nothingToSend", FALSE)
     ELSE IF ~channelReady THEN Refused("uploadRefused", "notReady", TRUE)
     ELSE /\ upload' = session
          /\ last' = Did("upload", session, NoEvent, <<>>)
          /\ UNCHANGED <<selectedFile, fileInput, convFetches, pollVars, consumed, sessions,
                         fetches, chan, wsRef, wsConnected, observerRef, timers,
                         readTimerRef, pendingLastSeenDateRef, lastSentReadDateRef,
                         messages, unreadCount, firstUnreadId, loading, newMessage,
                         burst>>

\* POST /file settles: the rest of handleFileUpload in the closure that
\* issued it, with its finally block.
UploadSettles(ok) ==
  /\ upload # 0
  /\ upload' = 0
  /\ fileInput' = FALSE
  /\ IF ok /\ channelReady
     THEN /\ LiveCount(messages) < MaxLive
          /\ messages' = Append(messages,
                                [id |-> DateNow, conversation_id |-> sessions[upload],
                                 sender_id |-> currentUserId, created_at |-> NowStr,
                                 is_read |-> FALSE])
          /\ selectedFile' = FALSE
          /\ last' = Did("uploaded", upload, NoEvent,
                         <<[type |-> "file", id |-> DateNow,
                            conversation_id |-> sessions[upload],
                            sender_id |-> currentUserId, timestamp |-> NowStr,
                            via |-> wsRef]>>)
     ELSE /\ last' = Did("uploadFailed", upload, [why |-> IF ok THEN "notReady" ELSE "failed",
                                                  alert |-> TRUE], <<>>)
          /\ UNCHANGED <<messages, selectedFile>>
  /\ UNCHANGED <<convFetches, pollVars, consumed, sessions, fetches, chan, wsRef, wsConnected,
                 observerRef, timers, readTimerRef, pendingLastSeenDateRef,
                 lastSentReadDateRef, unreadCount, firstUnreadId, loading, newMessage,
                 burst>>

\* ---------------------------------------------------------------- Messenger
\* The friends of the sidebar: with or without id (0), with or without a
\* conversation_id listed by the backend (0).
Friends == {[id |-> f, conversation_id |-> c] : f \in {0, Other}, c \in {NoConv, 2}}
\* user?.user_id at the time of the click, 0 when there is no user.
Users == {0, currentUserId}

\* No identifier is ever found missing.
nothingMissing(friend, user) == FALSE

\* if (!friend.id) ... if (!user?.user_id) ...
missingIdentifier(friend, user) == friend.id = 0 \/ user = 0

\* setSelectedChat with conversation id c: the ChatArea effect runs when the
\* id differs from the one of the current run.
setSelectedChat(c, op, info) ==
  IF c # conversationId
  THEN SwitchConversation(c)
  ELSE /\ last' = Did(op, session, info, <<>>)
       /\ UNCHANGED <<fileVars, consumed, sessions, fetches, chan, wsRef, wsConnected,
                      observerRef, timers, readTimerRef, pendingLastSeenDateRef,
                      lastSentReadDateRef, messages, unreadCount, firstUnreadId, loading,
                      newMessage, burst>>

\* handleFriendClick(friend) up to its await of GET /conversation.
handleFriendClick(friend, user) ==
  IF missingIdentifier(friend, user)
  THEN /\ last' = Did("clickRefused", session,
                      [friend |-> friend, user |-> user, alert |-> friend.id = 0], <<>>)
       /\ UNCHANGED <<fileVars, convFetches, pollVars, consumed, sessions, fetches, chan, wsRef,
                      wsConnected, observerRef, timers, readTimerRef,
                      pendingLastSeenDateRef, lastSentReadDateRef, messages, unreadCount,
                      firstUnreadId, loading, newMessage, burst>>
  ELSE IF friend.conversation_id # 0
  THEN /\ session < MaxSess
       /\ setSelectedChat(friend.conversation_id, "click", NoEvent)
       /\ UNCHANGED <<convFetches, pollVars>>
  ELSE /\ convFetches' = convFetches \cup {[user |-> user, friend |-> friend.id]}
       /\ UNCHANGED pollVars
       /\ last' = Did("click", session, NoEvent, <<>>)
       /\ UNCHANGED <<fileVars, consumed, sessions, fetches, chan, wsRef, wsConnected,
                      observerRef, timers, readTimerRef, pendingLastSeenDateRef,
                      lastSentReadDateRef, messages, unreadCount, firstUnreadId, loading,
                      newMessage, burst>>

\* The request f of GET /conversation settles: the rest of handleFriendClick.
\* id is conversation.id of the answer, 0 when the answer has none.
ConversationSettles(f, ok, id) ==
  /\ f \in convFetches
  /\ convFetches' = convFetches \ {f}
  /\ UNCHANGED pollVars
  /\ IF ok
     THEN /\ session < MaxSess
          /\ setSelectedChat(id, "conversation", f)
     ELSE /\ last' = Did("conversationFailed", session, f, <<>>)
          /\ UNCHANGED <<fileVars, consumed, sessions, fetches, chan, wsRef, wsConnected,
                         observerRef, timers, readTimerRef, pendingLastSeenDateRef,
                         lastSentReadDateRef, messages, unreadCount, firstUnreadId,
                         loading, newMessage, burst>>

FriendClick == \E friend \in Friends : \E user \in Users : handleFriendClick(friend, user)
ConversationDone ==
  \E f \in convFetches : \E ok \in BOOLEAN : \E id \in Convs \cup {NoConv} :
    ConversationSettles(f, ok, id)

\* The accounts that can be signed in on this page.
AccountIds == {currentUserId, Other}

\* Every variable of the ChatArea and of the friend clicks.
chatVars ==
  <<sessions, fetches, chan, wsRef, wsConnected, observerRef, timers, readTimerRef,
    pendingLastSeenDateRef, lastSentReadDateRef, messages, unreadCount, firstUnreadId,
    loading, newMessage, fileVars, convFetches, burst, consumed>>

\* The flag is not consulted: every call of poll() issues a request.
pollAlways(u) == TRUE

\* if (unreadInFlight.current) return
pollMayIssue(u) == ~unreadInFlight

\* poll() of the effect run for user u, up to its await of fetch.
poll(u) ==
  IF pollMayIssue(u)
  THEN /\ unreadInFlight' = TRUE
       /\ unreadRequests' = Append(unreadRequests, u)
  ELSE UNCHANGED <<unreadInFlight, unreadRequests>>

\* A tick of setInterval(poll, 200).
PollTick ==
  /\ pollTimer # 0
  /\ poll(pollTimer)
  /\ last' = Did("pollTick", session, [user |-> pollTimer, issued |-> pollMayIssue(pollTimer)], <<>>)
  /\ UNCHANGED <<chatVars, userId, unreadCounts, pollTimer>>

\* The request at position i settles: the rest of poll() in its closure.
\* outcome is "ok" (res.ok and a body that parses, counting n unread
\* messages in the user's conversation), "notOk", or "throws" (fetch or
\* res.json() rejects); the finally block runs in each case.
PollSettles(i, outcome, n) ==
  /\ i \in 1 .. Len(unreadRequests)
  /\ unreadRequests' = SubSeq(unreadRequests, 1, i - 1)
                         \o SubSeq(unreadRequests, i + 1, Len(unreadRequests))
  /\ unreadCounts' = IF outcome = "ok"
                     THEN [user |-> unreadRequests[i], unreaded_messages |-> n]
                     ELSE unreadCounts
  /\ unreadInFlight' = FALSE
  /\ last' = Did("pollSettled", session, [user |-> unreadRequests[i], outcome |-> outcome], <<>>)
  /\ UNCHANGED <<chatVars, userId, pollTimer>>

\* user?.user_id becomes u (sign-out is 0): the cleanup of the poll effect,
\* then its next run.
UserChanges(u) ==
  /\ u # userId
  /\ userId' = u
  /\ IF u = 0
     THEN /\ pollTimer' = 0
          /\ UNCHANGED <<unreadInFlight, unreadRequests>>
     ELSE /\ poll(u)
          /\ pollTimer' = u
  /\ last' = Did("userChanged", session, [user |-> u, issued |-> u # 0 /\ pollMayIssue(u)], <<>>)
  /\ UNCHANGED <<chatVars, unreadCounts>>

PollDone ==
  \E i \in 1 .. Len(unreadRequests) : \E outcome \in {"ok", "notOk", "throws"} :
    \E n \in IF outcome = "ok" THEN 0 .. MaxUnreaded ELSE {0} : PollSettles(i, outcome, n)
UserChange == \E u \in AccountIds \cup {0} : UserChanges(u)

Switch == \E c \in Convs \cup {NoConv} : SwitchConversation(c) /\ UNCHANGED <<convFetches, pollVars>>
Opened == \E s \in 1 .. MaxSess : WsOpen(s)
Closed == \E s \in 1 .. MaxSess : WsClose(s)
PushMessage == \E s \in 1 .. session : \E p \in LivePayloads(sessions[s]) : WsPush(s, "message", p)
PushFile == \E s \in 1 .. session : \E p \in LivePayloads(sessions[s]) : WsPush(s, "file", p)
PushRead == \E s \in 1 .. session : \E ev \in ReadEvents : WsRead(s, ev)
PushSkipped == \E s \in 1 .. session : \E kind \in {"file", "unknown", "unparseable"} : WsSkipped(s, kind)
\* One batch reports one row, or two adjacent rows, of the rendered list
\* crossing the threshold.
Observe ==
  \E lo \in 1 .. Len(messages) : \E hi \in {lo, lo + 1} \cap (1 .. Len(messages)) :
    ObserverCallback(lo .. hi)
Expire == \E i \in 1 .. Len(timers) : TimerFires(i)
Type == \E text \in {"", "hi"} : TypeMessage(text)
Closing == \E s \in 1 .. MaxSess : WsClosing(s)
UploadDone == \E ok \in BOOLEAN : UploadSettles(ok)

\* The pushes of the conversation's peer alone: a timestamped message and
\* the read confirmations for the latest instant.
PushPeerMessage ==
  \E s \in 1 .. session :
    /\ \A i \in 1 .. Len(messages) : messages[i].id # 5
    /\ WsPush(s, "message", [id |-> 5, conversation_id |-> sessions[s], sender_id |-> Other,
                          timestamp |-> IsoStr(MaxTime)])
\* The backend delivers a record of the history once more.
PushReplay == \E s \in 1 .. session : WsPush(s, "message", ReplayPayload(sessions[s]))
\* A message of the peer that the backend stamped before a row the view
\* already shows and delivers after it.
LatePayload(c) ==
  [id |-> 8, conversation_id |-> c, sender_id |-> Other, timestamp |-> IsoStr(1)]
PushLate == \E s \in 1 .. session : WsPush(s, "message", LatePayload(sessions[s]))
PushLatestRead ==
  \E s \in 1 .. session : \E r \in ReaderShapes :
    WsRead(s, [type |-> "messages_read", last_seen_date |-> IsoStr(MaxTime), reader |-> r])

\* The view across conversation changes.
Next ==
  \/ Switch
  \/ LoadOk
  \/ LoadFails
  \/ Opened
  \/ Closed
  \/ PushPeerMessage
  \/ PushLatestRead

Spec == Init /\ [][Next]_vars

\* One conversation session with everything the backend and the user can do.
NextStore ==
  \/ LoadOk
  \/ LoadFails
  \/ Opened
  \/ Closed
  \/ PushMessage
  \/ PushFile
  \/ PushRead
  \/ PushSkipped
  \/ Observe
  \/ Expire

SpecStore == Init /\ [][NextStore]_vars

\* One conversation session with the user typing and sending.
NextSend ==
  \/ LoadOk
  \/ LoadFails
  \/ Opened
  \/ Closed
  \/ PushPeerMessage
  \/ PushReplay
  \/ Closing
  \/ Type
  \/ sendMessage
  \/ handleFileSelect
  \/ cancelFileSelection
  \/ handleFileUpload
  \/ UploadDone

SpecSend == Init /\ [][NextSend]_vars

\* The Messenger choosing the conversation, with the user typing and sending.
NextClick ==
  \/ FriendClick
  \/ ConversationDone
  \/ LoadOk
  \/ Opened
  \/ Type
  \/ sendMessage

SpecClick == Init /\ [][NextClick]_vars

\* One conversation session of the read-receipt pipeline in which the peer's
\* messages need not arrive in the order of their timestamps. No
\* messages_read event arrives and the conversation does not change, so
\* lastSentReadDateRef is the last_seen_date of the session's latest
\* mark_as_read throughout.
NextLate ==
  \/ LoadOk
  \/ Opened
  \/ PushLate
  \/ Observe
  \/ Expire

SpecLate == Init /\ [][NextLate]_vars

\* The sidebar's unread-count poll while accounts sign in and out.
NextPoll ==
  \/ PollTick
  \/ PollDone
  \/ UserChange

SpecPoll == Init /\ [][NextPoll]_vars

\* A file upload across conversation changes: the view stays mounted, so
\* the handleFileUpload that awaits POST /file resumes in its own closure
\* whatever conversation is shown by then.
NextUpload ==
  \/ Switch
  \/ LoadOk
  \/ Opened
  \/ Closed
  \/ handleFileSelect
  \/ handleFileUpload
  \/ UploadDone

SpecUpload == Init /\ [][NextUpload]_vars

\* The read-receipt pipeline across conversation changes: rows become
\* visible, the debounce timer is armed and expires.
NextRead ==
  \/ Switch
  \/ LoadOk
  \/ Opened
  \/ Observe
  \/ Expire

SpecRead == Init /\ [][NextRead]_vars

\* One conversation session of the read-receipt pipeline, with the
\* scheduling the event loop and the network give: an armed timer expires,
\* a channel that is Connecting opens and, with no close event, stays Open.
\* What the user scrolls into view is not forced.
NextFlush ==
  \/ LoadOk
  \/ Opened
  \/ Observe
  \/ Expire

SpecFlushFair ==
  /\ Init
  /\ [][NextFlush]_vars
  /\ WF_vars(Expire)
  /\ WF_vars(Opened)

\* ------------------------------------------------- loadMessages on its own
\* Records a history response may list: two spellings of one instant, a
\* record whose own is_read contradicts its list, one that carries its
\* instant as `timestamp`, and one without any timestamp.
RawPool ==
  {RawMsg(1, 1, Other, IsoStr(1)),
   [RawMsg(2, 1, currentUserId, 2) EXCEPT !.is_read = TRUE],
   RawMsg(3, 1, Other, IsoStr(2)),
   [RawMsg(4, 1, Other, Undefined) EXCEPT !.timestamp = IsoStr(1)],
   RawMsg(5, 1, currentUserId, Undefined)}

RawLists ==
  {l \in UNION {[1 .. k -> RawPool] : k \in 0 .. MaxHist} :
     \A i, j \in 1 .. Len(l) : i # j => l[i] # l[j]}

AnyResponses ==
  {[readed_messages |-> r, not_readed_messages |-> n] : r, n \in RawLists}

LoadAny ==
  \E data \in AnyResponses :
    /\ Range(data.readed_messages) \cap Range(data.not_readed_messages) = {}
    /\ FetchSettles(1, TRUE, data)

SpecLoad == Init /\ [][LoadAny]_vars

\* ------------------------------------------------------------------ claims
Active(s) == chan[s] \in {"connecting", "open"}
TimeAt(msgs, i) == GetTime(msgs[i].created_at)

\* C1: a message that is in the store with is_read = true never appears in
\* the store with is_read = false afterwards: no step takes a record that
\* is read to a record of the same id that is unread.
IsReadMonotonic ==
  [][\A i \in 1 .. Len(messages) : \A j \in 1 .. Len(messages') :
       (messages[i].is_read /\ messages'[j].id = messages[i].id) => messages'[j].is_read]_vars

\* C2: in every reachable state unreadCount is the number of records of the
\* store with is_read = false and sender_id # currentUserId.
UnreadCountMatchesStore == unreadCount = CountUnread(messages)

\* C3: the result of a history fetch that settles after the conversation
\* was switched is discarded, so the store holds only messages of the
\* active conversation.
StoreHoldsActiveConversation ==
  \A i \in 1 .. Len(messages) : messages[i].conversation_id = conversationId

\* What a mark-read with the given cutoff leaves when it is to mark the
\* records of the current user (own = TRUE) or of the others (own = FALSE).
MarkedFor(msgs, cutoff, own) ==
  [i \in 1 .. Len(msgs) |->
     IF ((msgs[i].sender_id = currentUserId) <=> own)
        /\ IsFinite(TimeAt(msgs, i)) /\ TimeAt(msgs, i) <= cutoff
     THEN [msgs[i] EXCEPT !.is_read = TRUE] ELSE msgs[i]]

NoIdentity(r) == r.user_id = 0 /\ r.reader_id = 0 /\ r.readerId = 0

\* The messages_read event handled in this step echoes the timestamp that
\* sendReadReceipts flushed last and that no event has matched since.
EchoesFlush(ev) ==
  /\ ev.last_seen_date # Undefined
  /\ IsFinite(GetTime(ev.last_seen_date))
  /\ ev.last_seen_date = lastSentReadDateRef

\* C4: a messages_read event whose last_seen_date equals the value flushed
\* last and that carries no reader identity marks read exactly the unread
\* records of the others with created_at <= last_seen_date; no record of
\* the current user changes.
SelfEchoMarksReceivedOnly ==
  [][last'.op = "read" =>
       LET ev == last'.info.ev
       IN (EchoesFlush(ev) /\ NoIdentity(ev.reader)) =>
            messages' = MarkedFor(messages, GetTime(ev.last_seen_date), FALSE)]_vars

\* C4 witness: such an echo was handled with a record of the peer read at or
\* before the cutoff and an unread record of the current user at or before
\* the cutoff left unread.
SelfEchoHandled ==
  /\ last.op = "read"
  /\ last.info.selfAck
  /\ NoIdentity(last.info.ev.reader)
  /\ \E i, j \in 1 .. Len(messages) :
       /\ messages[i].sender_id # currentUserId /\ messages[i].is_read
       /\ TimeAt(messages, i) <= GetTime(last.info.ev.last_seen_date)
       /\ messages[j].sender_id = currentUserId /\ ~messages[j].is_read
       /\ IsFinite(TimeAt(messages, j))
       /\ TimeAt(messages, j) <= GetTime(last.info.ev.last_seen_date)

IdentityOfPeer(ev) == readerId(ev.reader) # 0 /\ readerId(ev.reader) # currentUserId

\* C5 as stated: when a messages_read event names a reader other than the
\* current user and its last_seen_date equals the unconsumed flushed
\* timestamp, it is handled as a self-echo: the records of the others up to
\* the cutoff are marked read, those of the current user are not.
SelfEchoBeatsIdentity ==
  [][last'.op = "read" =>
       LET ev == last'.info.ev
       IN (EchoesFlush(ev) /\ IdentityOfPeer(ev)) =>
            messages' = MarkedFor(messages, GetTime(ev.last_seen_date), FALSE)]_vars

\* C5 amended: in that case the reader identity decides: the event is
\* handled as a peer read (the records of the current user up to the cutoff
\* are marked read, those of the others are left), and the token is cleared.
IdentityBeatsSelfEcho ==
  [][last'.op = "read" =>
       LET ev == last'.info.ev
       IN (EchoesFlush(ev) /\ IdentityOfPeer(ev)) =>
            /\ messages' = MarkedFor(messages, GetTime(ev.last_seen_date), TRUE)
            /\ lastSentReadDateRef' = Undefined]_vars

\* C5 witness: an event naming the peer matched the unconsumed token and
\* marked a record of the current user; the token is gone.
PeerReadMatchedToken ==
  /\ last.op = "read"
  /\ last.info.selfAck
  /\ IdentityOfPeer(last.info.ev)
  /\ \E i \in last.info.marked :
       messages[i].sender_id = currentUserId /\ messages[i].is_read
  /\ lastSentReadDateRef = Undefined

\* A timer expired in the last step with the channel Open, ending a burst of
\* at least one scheduleReadReceipts call.
BurstExpiredOpen ==
  /\ last.op = "timer"
  /\ wsRef # 0 /\ chan[wsRef] = "open"
  /\ last.info.burst.n >= 1

\* C6 as stated: with the channel Open, a burst of scheduleReadReceipts calls
\* in which a message with a timestamp became visible produces exactly one
\* mark_as_read, whose last_seen_date is the maximum created_at among the
\* unread messages of the others that became visible in that burst.
BurstFlushesItsMaximum ==
  (BurstExpiredOpen /\ IsFinite(last.info.burst.max)) =>
     /\ Len(last.sent) = 1
     /\ last.sent[1].type = "mark_as_read"
     /\ GetTime(last.sent[1].last_seen_date) = last.info.burst.max

\* C6 amended: such a burst produces exactly one mark_as_read when the
\* pending cursor is set at expiry and none when it is not (no message with
\* a parseable timestamp was seen since the cursor was cleared); the event
\* carries the cursor, which is never earlier than the maximum of the burst
\* and is later when an earlier expiry found the channel not Open and left
\* a later cursor behind; the flush clears the cursor.
BurstFlushesCursor ==
  BurstExpiredOpen =>
     IF last.info.cursor = Undefined
     THEN last.sent = <<>> /\ ~IsFinite(last.info.burst.max)
     ELSE /\ Len(last.sent) = 1
          /\ last.sent[1].type = "mark_as_read"
          /\ last.sent[1].last_seen_date = last.info.cursor
          /\ IsFinite(last.info.burst.max) => GetTime(last.info.cursor) >= last.info.burst.max
          /\ pendingLastSeenDateRef = Undefined

\* C6 witness: a burst of two calls or more was flushed.
BurstOfTwoFlushed ==
  /\ BurstExpiredOpen
  /\ last.info.burst.n >= 2
  /\ Len(last.sent) = 1
  /\ GetTime(last.sent[1].last_seen_date) = last.info.burst.max

\* C7: changing the conversation closes the prior channel, whatever its
\* state, before a new one is opened: right after the change no channel is
\* Connecting or Open, and in every state at most one channel is.
OneChannelAtATime ==
  /\ Cardinality({s \in 1 .. MaxSess : Active(s)}) <= 1
  /\ last.op = "switch" => \A s \in 1 .. MaxSess : ~Active(s)

\* C7 witness: the channel of an earlier session was closed by the change
\* and the channel of the current session is Connecting or Open.
ChannelReplaced ==
  /\ Active(session)
  /\ \E s \in 1 .. session - 1 : chan[s] \in {"closing", "closed"}

\* C8: once the cleanup of a session has run, no channel, observer or timer
\* of that session exists, and a loadAndConnect continuation that resumes
\* after it creates neither a channel nor an observer.
NoResourceOfAnEndedSession ==
  /\ \A s \in 1 .. session - 1 : ~Active(s)
  /\ wsRef \in {0, session}
  /\ observerRef \in {0, session}
  /\ \A i \in 1 .. Len(timers) : timers[i] = session

\* C9: the history fetch of a session has settled before a channel is opened
\* for it, and no inbound message, file or messages_read event is applied
\* to the store while the fetch of the active conversation is in flight.
NoLiveEventBeforeHistory ==
  /\ \A s \in fetches : chan[s] = "none"
  /\ last.op \in {"push", "read"} => session \notin fetches

\* C10: the store loadMessages produces holds every record of
\* readed_messages with is_read = true and every record of
\* not_readed_messages with is_read = false, ascending by created_at, with
\* records of one instant in the order of the input (read list first).
LoadTagsAndSorts ==
  last.op = "loaded" =>
    LET input == last.info.readed_messages \o last.info.not_readed_messages
        at(id) == CHOOSE k \in 1 .. Len(input) : input[k].id = id
    IN /\ Len(messages) = Len(input)
       /\ \A k \in 1 .. Len(input) : \E i \in 1 .. Len(messages) :
            /\ messages[i].id = input[k].id
            /\ messages[i].sender_id = input[k].sender_id
            /\ messages[i].is_read = (k <= Len(last.info.readed_messages))
       /\ \A i, j \in 1 .. Len(messages) :
            i < j => /\ TimeAt(messages, i) <= TimeAt(messages, j)
                     /\ TimeAt(messages, i) = TimeAt(messages, j)
                          => at(messages[i].id) < at(messages[j].id)

\* C10 witness: a load whose result puts an unread record ahead of a read
\* one and holds two records of one instant.
LoadInterleavesLists ==
  /\ last.op = "loaded"
  /\ \E i, j \in 1 .. Len(messages) :
       i < j /\ ~messages[i].is_read /\ messages[j].is_read
  /\ \E i, j \in 1 .. Len(messages) :
       i < j /\ TimeAt(messages, i) = TimeAt(messages, j)
            /\ messages[i].created_at # messages[j].created_at

\* C11: in every reachable state the store is ascending by created_at: of
\* two records with a parseable created_at the earlier one in the array is
\* not the later one in time.
StoreAscending ==
  \A i, j \in 1 .. Len(messages) :
    (i < j /\ IsFinite(TimeAt(messages, i)) /\ IsFinite(TimeAt(messages, j)))
      => TimeAt(messages, i) <= TimeAt(messages, j)

\* C12: in every reachable state firstUnreadId is the id of the record with
\* the smallest created_at among the records of the store with
\* is_read = false and sender_id # currentUserId, and is null (0) exactly
\* when there is no such record.
FirstUnreadIsEarliest ==
  LET U == {i \in 1 .. Len(messages) : IsUnreadFromOthers(messages[i])}
  IN IF U = {} THEN firstUnreadId = 0
     ELSE \E i \in U :
            /\ messages[i].id = firstUnreadId
            /\ \A j \in U : (IsFinite(TimeAt(messages, i)) /\ IsFinite(TimeAt(messages, j)))
                              => TimeAt(messages, i) <= TimeAt(messages, j)

\* The direction the messages_read handler took for the event of the last
\* step: TRUE for a peer read.
DirectionTaken ==
  IF readerId(last.info.ev.reader) # 0 THEN readerId(last.info.ev.reader) # currentUserId
  ELSE ~last.info.selfAck

ValidCutoff(ev) == ev.last_seen_date # Undefined /\ IsFinite(GetTime(ev.last_seen_date))

\* C13: applying the mark-read update for one cutoff and one direction
\* twice leaves the store, unreadCount and firstUnreadId as applying it
\* once: for every reachable store, cutoff and direction, and in
\* particular the store and counters a messages_read event or a flush has
\* just produced are unchanged by applying the same update again.
MarkReadIdempotent ==
  /\ \A t \in 1 .. MaxTime :
       /\ \A peer \in BOOLEAN :
            LET once == MarkRead(messages, t, peer)
                twice == MarkRead(once, t, peer)
            IN /\ twice = once
               /\ CountUnread(twice) = CountUnread(once)
               /\ FirstUnread(twice) = FirstUnread(once)
       /\ MarkSeen(MarkSeen(messages, t), t) = MarkSeen(messages, t)
  /\ (last.op = "read" /\ ValidCutoff(last.info.ev)) =>
       /\ MarkRead(messages, GetTime(last.info.ev.last_seen_date), DirectionTaken) = messages
       /\ unreadCount = CountUnread(messages)
       /\ firstUnreadId = FirstUnread(messages)
  /\ (last.op = "timer" /\ last.sent # <<>>) =>
       /\ MarkSeen(messages, GetTime(last.info.cursor)) = messages
       /\ unreadCount = CountUnread(messages)
       /\ firstUnreadId = FirstUnread(messages)

\* C13 witness: a messages_read event has just marked records while an
\* unread record later than the cutoff remains.
MarkReadApplied ==
  /\ last.op = "read"
  /\ last.info.marked # {}
  /\ \E j \in 1 .. Len(messages) :
       /\ ~messages[j].is_read
       /\ TimeAt(messages, j) > GetTime(last.info.ev.last_seen_date)

\* C14: a messages_read event with cutoff T changes is_read of exactly the
\* previously unread records with created_at <= T of the current user (peer
\* read) or of the others (self read); every other record is unchanged, and
\* a peer read does not change unreadCount.
MarkReadFrame ==
  [][last'.op = "read" =>
       LET ev == last'.info.ev
           peer == IF readerId(ev.reader) # 0 THEN readerId(ev.reader) # currentUserId
                   ELSE lastSentReadDateRef # ev.last_seen_date
       IN ValidCutoff(ev) =>
            /\ messages' = MarkedFor(messages, GetTime(ev.last_seen_date), peer)
            /\ peer => unreadCount' = unreadCount]_vars

\* C15: the self-echo token is single-use.  A messages_read event that
\* matches the token clears it; only a flush sets it again; and an event
\* without reader identity whose last_seen_date does not equal the token,
\* as the second of two equal events with no flush in between finds it,
\* is handled as a peer read: the records of the current user up to the
\* cutoff are marked read.
TokenIsSingleUse ==
  [][/\ last'.op = "read" =>
          LET ev == last'.info.ev
          IN ValidCutoff(ev) =>
               /\ ev.last_seen_date = lastSentReadDateRef => lastSentReadDateRef' = Undefined
               /\ (NoIdentity(ev.reader) /\ ev.last_seen_date # lastSentReadDateRef) =>
                     messages' = MarkedFor(messages, GetTime(ev.last_seen_date), TRUE)
     /\ (lastSentReadDateRef' # lastSentReadDateRef /\ lastSentReadDateRef' # Undefined) =>
          (last'.op = "timer" /\ last'.sent # <<>>)]_vars

\* C15 witness: with no flush since an event consumed the token, an event
\* with the same last_seen_date and no reader identity has just marked a
\* record of the current user.
SecondEchoIsPeerRead ==
  /\ last.op = "read"
  /\ NoIdentity(last.info.ev.reader)
  /\ consumed = last.info.ev.last_seen_date
  /\ ~last.info.selfAck
  /\ \E i \in last.info.marked : messages[i].sender_id = currentUserId

\* C16: a send attempt made while the channel is absent or not Open fails
\* and says so: sendMessage with a typed text, and handleFileUpload with a
\* file and a conversation, raise the alert, write nothing to the channel,
\* issue no upload request, and leave the store, unreadCount and the typed
\* text as they were.
SendWhileNotReadyFails ==
  [][(wsRef = 0 \/ chan[wsRef] # "open") =>
       /\ (last'.op \in {"send", "sendRefused"} /\ newMessage # "") =>
            /\ last'.op = "sendRefused" /\ last'.info.alert
            /\ last'.sent = <<>>
            /\ UNCHANGED <<messages, unreadCount, firstUnreadId, newMessage, upload>>
       /\ (last'.op \in {"upload", "uploadRefused"} /\ fileInput /\ conversationId # NoConv) =>
            /\ last'.op = "uploadRefused" /\ last'.info.alert
            /\ last'.sent = <<>>
            /\ UNCHANGED <<messages, unreadCount, firstUnreadId, newMessage, upload>>]_vars

\* C16 witness: sendMessage was refused with a typed text while a socket
\* that is not Open is held; the text is still there.
SendRefusedNotReady ==
  /\ last.op = "sendRefused"
  /\ last.info.why = "notReady"
  /\ wsRef # 0 /\ chan[wsRef] # "open"
  /\ newMessage # ""
  /\ messages # <<>>

\* The last step's inbound event was skipped by onmessage: unparseable, of
\* an unrecognized type, a file event without payload, or a messages_read
\* without a valid last_seen_date.
SkippedEvent(l) ==
  \/ l.op = "skipped"
  \/ l.op = "read" /\ ~ValidCutoff(l.info.ev)

\* C17: an inbound event that is unparseable, of an unrecognized type, or a
\* messages_read without a valid last_seen_date is skipped: the store,
\* unreadCount, firstUnreadId, the pending cursor and the token are
\* unchanged, the channel stays Open (so onmessage takes the next event),
\* and every event that arrives on it afterwards is handled.
MalformedEventSkipped ==
  [][/\ SkippedEvent(last') =>
          /\ UNCHANGED <<messages, unreadCount, firstUnreadId, pendingLastSeenDateRef,
                         lastSentReadDateRef, chan, wsRef, wsConnected>>
          /\ chan'[last'.sess] = "open"
     /\ (SkippedEvent(last) /\ last'.op = "read" /\ ValidCutoff(last'.info.ev)) =>
          messages' = MarkRead(messages, GetTime(last'.info.ev.last_seen_date),
                               isPeerReader(last'.info.ev.last_seen_date, last'.info.ev.reader))
     /\ (SkippedEvent(last) /\ last'.op = "push") =>
          (Len(messages') = Len(messages) + 1 /\ messages'[Len(messages')].id = last'.info)]_vars

\* C17 witness: a messages_read with an unparseable last_seen_date was
\* skipped while a flushed token was waiting for its echo and unread
\* records of the peer were in the store; all are still there and the
\* channel is Open.
MalformedReadSkipped ==
  /\ last.op = "read"
  /\ last.info.ev.last_seen_date = 0
  /\ lastSentReadDateRef # Undefined
  /\ unreadCount > 0
  /\ chan[last.sess] = "open"

\* No unread record of the others at or before instant t is left.
ReadUpTo(t) ==
  \A i \in 1 .. Len(messages) :
    (messages[i].sender_id # currentUserId /\ IsFinite(TimeAt(messages, i))
       /\ TimeAt(messages, i) <= t) => messages[i].is_read

\* C18 as stated: when an unread record of the others with timestamp t has
\* become visible and the timer expires with the channel Open, exactly one
\* mark_as_read with last_seen_date = t is sent and in that same step the
\* records of the others up to t are marked read and the counters are
\* recomputed, unreadCount being 0 when nothing later is unread.
VisibleMessageFlushed ==
  (BurstExpiredOpen /\ last.info.burst.n = 1 /\ IsFinite(last.info.burst.max)) =>
     /\ Len(last.sent) = 1
     /\ last.sent[1].type = "mark_as_read"
     /\ GetTime(last.sent[1].last_seen_date) = last.info.burst.max
     /\ ReadUpTo(last.info.burst.max)
     /\ unreadCount = CountUnread(messages)
     /\ firstUnreadId = FirstUnread(messages)

\* C18 amended: the mark_as_read carries the pending cursor c, which is t
\* unless a later timestamp was left pending by an expiry that found the
\* channel not Open; in the step that sends it, without any confirmation,
\* every record of the others with created_at <= c is marked read and the
\* counters are recomputed from the store, so unreadCount is the number of
\* unread records of the others later than c or without a timestamp, 0 when
\* there are none.
VisibleMessageFlushesCursor ==
  (BurstExpiredOpen /\ IsFinite(last.info.burst.max)) =>
     LET c == last.info.cursor
     IN /\ c # Undefined /\ GetTime(c) >= last.info.burst.max
        /\ last.sent = <<[type |-> "mark_as_read", last_seen_date |-> c,
                          user_id |-> currentUserId,
                          conversation_id |-> sessions[last.sess], via |-> wsRef]>>
        /\ ReadUpTo(GetTime(c))
        /\ unreadCount = CountUnread(messages)
        /\ firstUnreadId = FirstUnread(messages)
        /\ unreadCount = Cardinality({i \in 1 .. Len(messages) :
                            /\ IsUnreadFromOthers(messages[i])
                            /\ (~IsFinite(TimeAt(messages, i)) \/ TimeAt(messages, i) > GetTime(c))})

\* C18 witness: one record became visible, the flush carried its timestamp
\* and left no unread record: unreadCount is 0 with a record of the peer
\* read at exactly the cutoff, and no confirmation has arrived (the token
\* is still waiting).
VisibleMessageRead ==
  /\ BurstExpiredOpen
  /\ last.info.burst.n = 1
  /\ Len(last.sent) = 1
  /\ GetTime(last.sent[1].last_seen_date) = last.info.burst.max
  /\ lastSentReadDateRef = last.sent[1].last_seen_date
  /\ unreadCount = 0
  /\ \E i \in 1 .. Len(messages) :
       /\ messages[i].sender_id # currentUserId /\ messages[i].is_read
       /\ messages[i].created_at = last.info.cursor

\* C19: in every reachable state no two records of the store have the same
\* id.
NoDuplicateIds ==
  \A i, j \in 1 .. Len(messages) : messages[i].id = messages[j].id => i = j

\* C20: an action requested with a missing identifier is aborted before any
\* network call.  A friend click without friend id or user id leaves the
\* selected conversation and everything else as it was, and no conversation
\* request is ever issued with either id missing; sendMessage with a blank
\* text or without a conversation id writes nothing to the channel and
\* appends nothing; a view without conversation id issues no history fetch.
MissingIdentifierAborts ==
  [][/\ last'.op = "clickRefused" =>
          /\ last'.sent = <<>>
          /\ UNCHANGED <<convFetches, sessions, fetches, chan, wsRef, messages, unreadCount,
                         firstUnreadId, newMessage>>
     /\ \A r \in convFetches' : r.user # 0 /\ r.friend # 0
     /\ (last'.op \in {"send", "sendRefused"} /\ (newMessage = "" \/ conversationId = NoConv)) =>
          /\ last'.op = "sendRefused"
          /\ last'.sent = <<>>
          /\ UNCHANGED <<messages, newMessage, chan, fetches>>
     /\ (last'.op = "switch" /\ sessions'[Len(sessions')] = NoConv) => fetches' = fetches]_vars

\* C20 witness: a click on a friend record without id, which lists a
\* conversation other than the open one, was refused with the alert.
FriendClickRefused ==
  /\ last.op = "clickRefused"
  /\ last.info.friend.id = 0
  /\ last.info.friend.conversation_id \notin {NoConv, conversationId}
  /\ last.info.alert
  /\ messages # <<>>

\* C21: between two clearings of the pending read cursor (a flush that
\* sent it, or the cleanup of a conversation change) the cursor is a running
\* maximum: an observer batch without a visible unread row of the peer
\* leaves it as it is, a batch replaces it only by the created_at of such a
\* row that is strictly later, and no step takes it to an earlier instant.
PendingCursorIsRunningMaximum ==
  [][/\ (last'.op = "observer" /\ last'.info.n = 0) =>
          pendingLastSeenDateRef' = pendingLastSeenDateRef
     /\ pendingLastSeenDateRef' # pendingLastSeenDateRef =>
          \/ /\ pendingLastSeenDateRef' = Undefined
             /\ \/ last'.op = "switch"
                \/ last'.op = "timer" /\ last'.sent # <<>>
          \/ /\ last'.op = "observer"
             /\ pendingLastSeenDateRef' # Undefined
             /\ IsFinite(GetTime(pendingLastSeenDateRef'))
             /\ pendingLastSeenDateRef # Undefined =>
                  GetTime(pendingLastSeenDateRef') > GetTime(pendingLastSeenDateRef)
             /\ \E i \in 1 .. Len(messages) :
                  /\ IsUnreadFromOthers(messages[i])
                  /\ messages[i].created_at = pendingLastSeenDateRef'
     /\ (pendingLastSeenDateRef # Undefined /\ pendingLastSeenDateRef' # Undefined) =>
          GetTime(pendingLastSeenDateRef') >= GetTime(pendingLastSeenDateRef)]_vars

\* C21 witness: a second passing entry of a burst has run and the cursor is
\* the latest instant of the burst, with an earlier unread row of the peer
\* in the store.
CursorMovedToLaterRow ==
  /\ last.op = "observer"
  /\ last.info.n >= 1
  /\ burst.n = 2
  /\ pendingLastSeenDateRef # Undefined
  /\ GetTime(pendingLastSeenDateRef) = burst.max
  /\ \E i \in 1 .. Len(messages) :
       /\ IsUnreadFromOthers(messages[i])
       /\ TimeAt(messages, i) < GetTime(pendingLastSeenDateRef)

\* C22 as stated: at every expiry of the debounce timer that finds a
\* pending read cursor, exactly one mark_as_read carrying that cursor is
\* written to the channel and the cursor is cleared.
ExpiryFlushesPendingCursor ==
  (last.op = "timer" /\ last.info.cursor # Undefined) =>
     /\ Len(last.sent) = 1
     /\ last.sent[1].type = "mark_as_read"
     /\ last.sent[1].last_seen_date = last.info.cursor
     /\ pendingLastSeenDateRef = Undefined

\* C22 amended: an expiry that finds a pending cursor and the channel Open
\* writes exactly one mark_as_read carrying that cursor to that channel and
\* clears the cursor; one that finds the channel absent or not Open writes
\* nothing and the cursor stays pending.
ExpiryFlushesPendingCursorWhenOpen ==
  (last.op = "timer" /\ last.info.cursor # Undefined) =>
     IF wsRef # 0 /\ chan[wsRef] = "open"
     THEN /\ Len(last.sent) = 1
          /\ last.sent[1].type = "mark_as_read"
          /\ last.sent[1].last_seen_date = last.info.cursor
          /\ last.sent[1].via = wsRef
          /\ pendingLastSeenDateRef = Undefined
     ELSE /\ last.sent = <<>>
          /\ pendingLastSeenDateRef = last.info.cursor

\* C22 witness: an expiry found a cursor, wrote it and cleared it.
CursorFlushedOnExpiry ==
  /\ last.op = "timer"
  /\ last.info.cursor # Undefined
  /\ Len(last.sent) = 1
  /\ last.sent[1].last_seen_date = last.info.cursor
  /\ pendingLastSeenDateRef = Undefined
  /\ lastSentReadDateRef = last.info.cursor

\* C23: the debounce timer is single-flight: no step leaves more than one
\* read-receipt timer armed, and an armed timer is the one readTimerRef
\* names; a scheduleReadReceipts call leaves exactly the timer it arms,
\* whatever was armed before; the cleanup of a conversation change leaves no
\* timer armed and readTimerRef null.
DebounceTimerIsSingleFlight ==
  [][/\ Len(timers') <= 1
     /\ timers' # <<>> => readTimerRef' = "armed"
     /\ (last'.op = "observer" /\ last'.info.n >= 1) =>
          /\ timers' = <<observerRef>>
          /\ readTimerRef' = "armed"
     /\ last'.op = "switch" =>
          /\ timers' = <<>>
          /\ readTimerRef' = "null"]_vars

\* C23 witness: a scheduleReadReceipts call ran while the timer of an
\* earlier call of the same burst was armed, and one timer is armed.
TimerRearmed ==
  /\ last.op = "observer"
  /\ last.info.n >= 1
  /\ burst.n = 2
  /\ timers = <<observerRef>>
  /\ readTimerRef = "armed"

\* C24: a request to open the channel for the conversation of effect run s
\* (the connectWebSocket call of its loadAndConnect) keeps the channel held
\* and creates none exactly when the channel held is Open for that same
\* conversation; otherwise it creates a new channel for the conversation,
\* which becomes the one held, so an Open channel of another conversation
\* is never taken for the requested one.
OpenRequestIsPerConversation ==
  [][last'.op \in {"loaded", "loadFailed"} =>
       LET s == last'.sess
       IN IF wsRef # 0 /\ chan[wsRef] = "open" /\ sessions[wsRef] = sessions[s]
          THEN wsRef' = wsRef /\ chan' = chan
          ELSE /\ wsRef' = s
               /\ chan[s] = "none"
               /\ chan'[s] = "connecting"]_vars

\* C25: an inbound message or file event appends exactly one record with
\* is_read = false to the end of the store and changes no record that was
\* there; unreadCount grows by exactly 1 when the record's sender is not
\* the current user and stays as it was when it is.
InboundAppendsOneUnread ==
  [][last'.op = "push" =>
       LET n == Len(messages)
       IN /\ Len(messages') = n + 1
          /\ SubSeq(messages', 1, n) = messages
          /\ messages'[n + 1].is_read = FALSE
          /\ messages'[n + 1].id = last'.info
          /\ unreadCount' = unreadCount +
               (IF messages'[n + 1].sender_id # currentUserId THEN 1 ELSE 0)]_vars

\* C26: a record that arrives without a timestamp, in the history response
\* or in a message / file event, is stored with a valid created_at: every
\* record of the store has a created_at that parses to an instant, so a
\* mark-read cutoff at or after it can select the record.
StoredRecordsHaveTimestamp ==
  \A i \in 1 .. Len(messages) :
    /\ messages[i].created_at # Undefined
    /\ IsFinite(TimeAt(messages, i))

FailedFetchIsAbsorbed ==
  [][last'.op = "loadFailed" =>
       /\ messages' = messages
       /\ messages' = <<>>
       /\ loading' = FALSE
       /\ observerRef' = last'.sess
       /\ wsRef' # 0
       /\ chan'[wsRef'] \in {"connecting", "open"}
       /\ sessions[wsRef'] = sessions[last'.sess]]_vars

\* C29: one batch of the visibility observer emits the maximum created_at
\* among its entries that are intersecting, unread and from others: after
\* the batch the instant of the pending cursor is the maximum of the
\* instant it had and the instants of those entries (a batch without such
\* an entry leaves the cursor as it is), and the flush timer is armed by
\* the batch if and only if it has at least one such entry.
ObserverEmitsBatchMaximum ==
  [][last'.op = "observer" =>
       /\ GetTime(pendingLastSeenDateRef') =
            TimeMax(GetTime(pendingLastSeenDateRef), last'.info.max)
       /\ last'.info.n = 0 => pendingLastSeenDateRef' = pendingLastSeenDateRef
       /\ IF last'.info.n >= 1
          THEN timers' = <<observerRef>> /\ readTimerRef' = "armed"
          ELSE timers' = timers /\ readTimerRef' = readTimerRef]_vars

\* C29 witness: a batch of two passing entries ran with no cursor pending
\* and left the later of their instants as the cursor, with the timer armed.
BatchOfTwoEmittedMaximum ==
  /\ last.op = "observer"
  /\ last.info.n = 2
  /\ burst.n = 2
  /\ burst.max = last.info.max
  /\ pendingLastSeenDateRef # Undefined
  /\ GetTime(pendingLastSeenDateRef) = last.info.max
  /\ \E i \in 1 .. Len(messages) :
       /\ IsUnreadFromOthers(messages[i])
       /\ TimeAt(messages, i) < last.info.max
  /\ timers = <<observerRef>>

\* C30: an expiry of the debounce timer that finds no channel held, or the
\* channel held not Open, writes nothing to any channel and leaves the
\* pending read cursor, the self-echo token, the store, unreadCount and
\* firstUnreadId as they were.
ExpiryWithoutOpenChannelIsNoOp ==
  [][(last'.op = "timer" /\ (wsRef = 0 \/ chan[wsRef] # "open")) =>
       /\ last'.sent = <<>>
       /\ pendingLastSeenDateRef' = pendingLastSeenDateRef
       /\ lastSentReadDateRef' = lastSentReadDateRef
       /\ messages' = messages
       /\ unreadCount' = unreadCount
       /\ firstUnreadId' = firstUnreadId]_vars

\* C30 witness: the timer expired with a cursor pending and the channel not
\* Open; the cursor is still pending and the row it was taken from is
\* still unread.
ExpiredWhileNotOpen ==
  /\ last.op = "timer"
  /\ wsRef # 0 /\ chan[wsRef] # "open"
  /\ last.sent = <<>>
  /\ last.info.cursor # Undefined
  /\ pendingLastSeenDateRef = last.info.cursor
  /\ \E i \in 1 .. Len(messages) :
       /\ IsUnreadFromOthers(messages[i])
       /\ messages[i].created_at = pendingLastSeenDateRef
  /\ unreadCount >= 1

\* C31: whenever the pending read cursor is set, with timers that expire
\* and a channel that opens and stays Open, eventually a mark_as_read is
\* written or the conversation is changed: a cursor is not left pending for
\* ever.  (The cursor only grows until it is flushed, so the mark_as_read
\* that follows carries an instant at or after it.)
PendingCursorEventuallyFlushed ==
  (pendingLastSeenDateRef # Undefined)
    ~> \/ last.op = "timer" /\ Len(last.sent) = 1
       \/ last.op = "switch"

\* C32: the self-echo token does not outlive its conversation session: in
\* the state a conversation change leaves, the token is empty, so that no
\* messages_read event of the new conversation can match a receipt flushed
\* in the previous one.
TokenEndsWithSession ==
  last.op = "switch" => lastSentReadDateRef = Undefined

\* C33: whenever the channel the view holds is Connecting or Open, it was
\* created for the conversation that is active now: the continuation of a
\* previous conversation's loadAndConnect never puts its channel into wsRef.
HeldChannelIsOfActiveConversation ==
  (wsRef # 0 /\ Active(wsRef)) => sessions[wsRef] = conversationId

\* C34: the connection indicator follows the channel the view holds:
\* whenever that channel is Open, its open event delivered, wsConnected is
\* true; the close or error event of a channel that was replaced does not
\* clear it.
IndicatorFollowsHeldChannel ==
  (wsRef # 0 /\ chan[wsRef] = "open") => wsConnected = TRUE

\* C35: every outbound event (message, file, mark_as_read) is written to a
\* channel that was opened for the conversation id carried in its payload,
\* a file event sent after an upload during which the conversation was
\* switched included; and when the channel is found not Open once the
\* upload has completed, no file event is sent and no optimistic message is
\* appended.
OutboundOnChannelOfItsConversation ==
  [][/\ \A i \in 1..Len(last'.sent) :
          /\ last'.sent[i].via # 0
          /\ sessions[last'.sent[i].via] = last'.sent[i].conversation_id
     /\ (upload # 0 /\ upload' = 0 /\ ~channelReady)
          => (last'.sent = <<>> /\ messages' = messages)]_vars

\* C36: within one conversation session the last_seen_date of successive
\* outbound mark_as_read events never decreases: a flush reports no instant
\* earlier than the one the previous flush of the session reported (held
\* in lastSentReadDateRef while no acknowledgement consumes it).
FlushedDatesNeverGoBack ==
  [][(/\ last'.op = "timer"
      /\ Len(last'.sent) = 1
      /\ lastSentReadDateRef # Undefined)
       => GetTime(last'.sent[1].last_seen_date) >= GetTime(lastSentReadDateRef)]_vars

\* C37: the sidebar's unread-count poll is single-flight. At most one
\* unreaded-user-messages request is outstanding at any time; a timer tick
\* that fires while a request is outstanding issues none; the in-flight
\* flag is released when a request completes, whatever the outcome; and an
\* answer to a request issued for a user who is no longer the current one
\* leaves the unread counts as they are.
UnreadPollIsSingleFlight ==
  [][/\ Len(unreadRequests') <= 1
     /\ (last'.op = "pollTick" /\ unreadRequests # <<>>) => unreadRequests' = unreadRequests
     /\ last'.op = "pollSettled" => ~unreadInFlight'
     /\ (last'.op = "pollSettled" /\ last'.info.user # userId)
          => unreadCounts' = unreadCounts]_vars

====
